---------------------------- MODULE Spec2Model ----------------------------
(***************************************************************************)
(* hcls-common: client wrappers around KeyProtect, AppID and Cloudant.    *)
(*                                                                         *)
(* Several state machines share this module:                               *)
(*   SpecRetry     one request sent through a service client that carries  *)
(*                 a retry-axios policy, attempt by attempt;               *)
(*   SpecUser      the AppID workflow existUserCheck, await by await;      *)
(*   SpecAppID     pingAppID and loginAppID, the login attempt by attempt; *)
(*   SpecKey       the exported KeyProtect operations, await by await;     *)
(*   SpecReplay    the replayed mutations (the DELETE of deleteKey, the    *)
(*                 POST of createUserCloudDirectory), attempt by attempt,  *)
(*                 with the remote they act on;                            *)
(*   SpecRace      two createKey calls that overlap;                       *)
(*   SpecCloudant  CloudantHelperLib: getInstance, setupCloudant and the   *)
(*                 methods that read the configuration.                    *)
(* In SpecUser, SpecKey and SpecRace a request is one step whose result is *)
(* what the client surfaces to the awaiting code (resolved or rejected);   *)
(* SpecRetry is the machine that produces that result.                     *)
(***************************************************************************)
EXTENDS Integers, Sequences, FiniteSets, TLC

VARIABLES
    keyProtectObj,  \* keyprotect-helper.js: the module-level configuration
    appIDObj,       \* app-id-helper.js: the module-level configuration
    rq,             \* the request in flight through a service client
    accounts,       \* AppID: the remote directory, by username (email)
    ux,             \* existUserCheck: the call in progress and its locals
    nRuns,          \* existUserCheck: calls started so far
    prevRun,        \* existUserCheck: the call that finished before this one
    store,          \* KeyProtect: the remote key records, in listing order
    kx,             \* KeyProtect: the operation in progress and its locals
    calls,          \* KeyProtect: the locals of createKey calls that overlap
    ax,             \* AppID: the pingAppID or loginAppID call in progress
    cloudantObj,    \* cloudant-helper.js: the module-level configuration
    instance,       \* cloudant-helper.js: the module-level CloudantHelperLib
    cx              \* Cloudant: the last method call and what it read

configVars == <<keyProtectObj, appIDObj>>
userVars == <<accounts, ux, nRuns, prevRun>>
keyVars == <<store, kx>>
auxVars == <<calls, ax, cloudantObj, instance, cx>>
vars ==
    <<keyProtectObj, appIDObj, rq, accounts, ux, nRuns, prevRun, store, kx,
      calls, ax, cloudantObj, instance, cx>>

(***************************************************************************)
(* Bounds of the model.                                                    *)
(***************************************************************************)
MaxRetries == 2

(***************************************************************************)
(* Configuration (keyprotect-helper.js, app-id-helper.js).  A string field *)
(* is "" when absent, a numeric field 0 (both are falsy in the source).    *)
(***************************************************************************)
KPEmpty ==
    [url |-> "", instanceID |-> "", apikey |-> "",
     retries |-> 0, retryDelay |-> 0, timeout |-> 0]

KPFull(r) ==
    [url |-> "kp-url", instanceID |-> "guid", apikey |-> "kp-key",
     retries |-> r, retryDelay |-> 1, timeout |-> 1]

\* The objects setConfig is called with: complete ones, the empty one, and
\* complete ones with a single field left out.
KPConfigs ==
    {KPFull(r) : r \in 1..MaxRetries}
        \cup {KPEmpty}
        \cup {[KPFull(1) EXCEPT ![f] = ""] : f \in {"url", "instanceID", "apikey"}}
        \cup {[KPFull(1) EXCEPT ![f] = 0] : f \in {"retries", "retryDelay", "timeout"}}

\* validateConfig of keyprotect-helper.js: the name of the first missing
\* variable, "" when none is missing (the function then returns normally).
KPValidateConfig(obj) ==
    IF obj.url = "" THEN "KEYPROTECT_URL"
    ELSE IF obj.instanceID = "" THEN "KEYPROTECT_GUID"
    ELSE IF obj.apikey = "" THEN "KEYPROTECT_APIKEY"
    ELSE IF obj.retries = 0 THEN "KEYPROTECT_RETRIES"
    ELSE IF obj.retryDelay = 0 THEN "KEYPROTECT_RETRYDELAY"
    ELSE IF obj.timeout = 0 THEN "KEYPROTECT_TIMEOUT"
    ELSE ""

AppIDEmpty ==
    [url |-> "", clientID |-> "", tenantID |-> "", secret |-> "", apikey |-> ""]

AppIDFull ==
    [url |-> "appid-url", clientID |-> "client", tenantID |-> "tenant",
     secret |-> "secret", apikey |-> "appid-key"]

AppIDConfigs ==
    {AppIDFull, AppIDEmpty}
        \cup {[AppIDFull EXCEPT ![f] = ""] :
                f \in {"url", "clientID", "tenantID", "secret"}}

\* validateConfig of app-id-helper.js.
AppIDValidateConfig(obj) ==
    IF obj.url = "" THEN "APP_ID_URL"
    ELSE IF obj.clientID = "" THEN "APP_ID_CLIENT_ID"
    ELSE IF obj.tenantID = "" THEN "APP_ID_TENANT_ID"
    ELSE IF obj.secret = "" THEN "APP_ID_SECRET"
    ELSE ""

\* const retries = 1 of app-id-helper.js.
retries == 1

(***************************************************************************)
(* The retry policy the clients attach (retry-axios).                      *)
(***************************************************************************)
\* What the remote can answer to one attempt: an HTTP status, or nothing
\* (a timeout or a transport failure), written 0.
NoResponse == 0
Statuses == {200, 400, 404, 500, 503}
Answers == Statuses \cup {NoResponse}

Is2xx(s) == s >= 200 /\ s <= 299
Is4xx(s) == s >= 400 /\ s <= 499
Is5xx(s) == s >= 500 /\ s <= 599

\* A mutation of KeyProtectRaxConfig: 4xx answers are replayed too.
KeyProtectRaxConfigRetry4xx(obj) ==
    [retry |-> obj.retries,
     noResponseRetries |-> obj.retries,
     statusCodesToRetry |-> {<<400, 599>>},
     httpMethodsToRetry |-> {"GET", "HEAD", "PUT", "OPTIONS", "DELETE"}]

\* client.defaults.raxConfig of keyProtectClient.  httpMethodsToRetry is not
\* set there, so retry-axios uses its default list, which has no POST.
KeyProtectRaxConfig(obj) ==
    [retry |-> obj.retries,
     noResponseRetries |-> obj.retries,
     statusCodesToRetry |-> {<<500, 599>>},
     httpMethodsToRetry |-> {"GET", "HEAD", "PUT", "OPTIONS", "DELETE"}]

\* loginClient.defaults.raxConfig of appIdLoginClient.
AppIdLoginRaxConfig ==
    [retry |-> retries,
     noResponseRetries |-> retries,
     statusCodesToRetry |-> {<<500, 599>>},
     httpMethodsToRetry |-> {"POST", "GET", "HEAD", "PUT"}]

\* axClient.defaults.raxConfig of appIdMgmtClient.
AppIdMgmtRaxConfig ==
    [retry |-> retries,
     noResponseRetries |-> retries,
     statusCodesToRetry |-> {<<500, 599>>},
     httpMethodsToRetry |-> {"POST", "GET", "HEAD", "PUT"}]

RaxConfigOf(client, obj) ==
    CASE client = "keyprotect" -> KeyProtectRaxConfig(obj)
      [] client = "appid-login" -> AppIdLoginRaxConfig
      [] client = "appid-mgmt" -> AppIdMgmtRaxConfig

\* The methods each client is used with in the helpers.
MethodsOf(client) ==
    CASE client = "keyprotect" -> {"GET", "DELETE", "POST"}
      [] client = "appid-login" -> {"POST"}
      [] client = "appid-mgmt" -> {"GET", "POST", "PUT"}

Clients == {"keyprotect", "appid-login", "appid-mgmt"}

\* The interceptor rax.attach installs: whether the attempt that was just
\* answered by `answer` is replayed.  currentRetryAttempt counts the replays
\* made so far.
ShouldRetryRequest(cfg, method, answer, currentRetryAttempt) ==
    /\ cfg.retry # 0
    /\ (answer = NoResponse => currentRetryAttempt < cfg.noResponseRetries)
    /\ method \in cfg.httpMethodsToRetry
    /\ (answer # NoResponse =>
            \E range \in cfg.statusCodesToRetry :
                answer >= range[1] /\ answer <= range[2])
    /\ currentRetryAttempt < cfg.retry

(***************************************************************************)
(* The remote AppID directory and the locals of existUserCheck.            *)
(***************************************************************************)
Usernames == {"a@b.com"}
Passwords == {"pw", "other"}

NoAccount ==
    [exists |-> FALSE, password |-> "", active |-> FALSE,
     roles |-> FALSE, attrs |-> FALSE]

NoAccounts == [u \in Usernames |-> NoAccount]

\* No call in progress.  loginSent: the initial login request was issued;
\* failedStep: the provisioning step that failed; result: what
\* existUserCheckFunc returned; raised: existUserCheck rejected; outcome: the
\* level of the entry existUserCheck logged; applied: the mutations this call
\* made in the remote directory.
UxIdle ==
    [pc |-> "idle", username |-> "", password |-> "", loginSent |-> FALSE,
     isUserExists |-> "unset", newUserId |-> "", failedStep |-> "none",
     result |-> "none", raised |-> FALSE, outcome |-> "none",
     callLog |-> <<>>, applied |-> {}]

(***************************************************************************)
(* KeyProtect: the remote key records and the locals of an operation.      *)
(* A key id is a positive number and 0 stands for the empty string ''; a   *)
(* creation date is a number of milliseconds since the epoch.              *)
(***************************************************************************)
MaxKeys == 3
MaxTs == 3

KeyNames == {"K", "J"}
SearchNames == {"K"}
NoID == 0
NewKeyID == MaxKeys + 1
NewKeyDate == MaxTs + 1

\* The creation dates a record of that name is given.  No operation reads
\* the date of a record whose name it does not search for, so those records
\* get one date.
DatesOf(name) == IF name \in SearchNames THEN 0..MaxTs ELSE {MaxTs}

\* The stores an operation can find: up to MaxKeys records, each with an id
\* of its own, in every listing order.
RECURSIVE StoresOfLen(_)
StoresOfLen(n) ==
    IF n = 0 THEN {<<>>}
    ELSE UNION {{Append(s, [id |-> n, name |-> nm, creationDate |-> ts]) :
                    s \in StoresOfLen(n - 1), ts \in DatesOf(nm)} :
                nm \in KeyNames}

Stores == UNION {StoresOfLen(n) : n \in 0..MaxKeys}

IDsOf(s) == {s[i].id : i \in 1..Len(s)}

\* The locals of an exported operation as it is called.  op: the operation;
\* pc: the await it is suspended at; status: "running", "returned" or
\* "raised"; result: the kind of value returned ("" for the empty string,
\* "undefined", "list" with the keys in resultKeys, "payload" or "id" with
\* the key id in resultID); callLog: the requests sent, in order; failures:
\* what failed during the operation; store0: the remote records when the
\* operation was called; scanReturned: getNewestKeyIDByName returned (its
\* value is in newestKeyID).
KxStart(op) ==
    [op |-> op, pc |-> "start", status |-> "running",
     result |-> "none", resultKeys |-> <<>>, resultID |-> NoID,
     keyID |-> NoID, keyName |-> "", hasClient |-> FALSE,
     keyList |-> <<>>, i |-> 1, newestKeyID |-> NoID, newestCreationDate |-> 0,
     deleteID |-> NoID, deleteCaller |-> "none", callLog |-> <<>>,
     failures |-> {}, store0 |-> store, scanReturned |-> FALSE]

\* No KeyProtect operation in progress.
KxIdle ==
    [KxStart("none") EXCEPT !.pc = "idle", !.status = "idle", !.store0 = <<>>]

\* The createKey calls that overlap in one process.
Callers == {1, 2}

NoCalls == [c \in Callers |-> KxIdle]

(***************************************************************************)
(* AppID: a pingAppID or loginAppID call (app-id-helper.js).  errorStatus  *)
(* is the status property of the error the call rejected with, 0 when the  *)
(* call did not reject or the error has no status property.                *)
(***************************************************************************)
AxIdle ==
    [op |-> "none", pc |-> "idle", status |-> "idle", result |-> "none",
     error |-> "none", errorStatus |-> 0, sent |-> FALSE, answers |-> <<>>]

(***************************************************************************)
(* Cloudant: the module-level state of cloudant-helper.js.                 *)
(***************************************************************************)
\* cloudantObj.connection as initCloudant reads it.  auth: "iam" when account
\* and iamApiKey are set, "legacy" when they are not but url, username and
\* password are, "none" otherwise.
Connections ==
    {[auth |-> "iam", url |-> "db-1", proxyUrl |-> "", timeout |-> 1],
     [auth |-> "legacy", url |-> "db-2", proxyUrl |-> "proxy", timeout |-> 2],
     [auth |-> "none", url |-> "db-1", proxyUrl |-> "", timeout |-> 1]}

\* The object has no connection section.
NoConnection == [auth |-> "absent", url |-> "", proxyUrl |-> "", timeout |-> 0]

\* The objects getInstance is called with.
CloudantConfigs ==
    {[connection |-> c, dbPartitionKey |-> k] :
        c \in Connections \cup {NoConnection}, k \in {"p1", "p2"}}

\* let cloudantObj; (undefined until the first getInstance)
UndefinedCloudantObj == [connection |-> NoConnection, dbPartitionKey |-> ""]

\* No service client: this.cloudant is undefined.
NoClient == [serial |-> 0, url |-> "", builtFrom |-> UndefinedCloudantObj]

\* let instance; (no CloudantHelperLib yet).  exists: getInstance has made
\* the instance; cloudant: its this.cloudant; pending: the services that
\* setupCloudant calls suspended at their await are about to assign, oldest
\* first; services: how many service clients initCloudant has constructed.
NoInstance ==
    [exists |-> FALSE, cloudant |-> NoClient, pending |-> <<>>, services |-> 0]

\* What a method call read from the configuration: only the field it read
\* is filled in.
NothingRead == [dbPartitionKey |-> "", timeout |-> 0]

\* No method call yet.  read: what the call read from cloudantObj; built:
\* the same fields of the configuration that the service client the call
\* went through was constructed from.
CxIdle ==
    [op |-> "none", status |-> "idle", errorStatus |-> 0, result |-> "none",
     read |-> NothingRead, built |-> NothingRead]

AuxInit ==
    /\ calls = NoCalls
    /\ ax = AxIdle
    /\ cloudantObj = UndefinedCloudantObj
    /\ instance = NoInstance
    /\ cx = CxIdle

\* No request in flight.  answers: what each attempt was answered, in order;
\* appliedAt: the attempts that the remote applied (the numbers of the
\* attempts whose mutation took effect there), where the remote is modelled.
RqIdle ==
    [state |-> "idle", client |-> "none", method |-> "none",
     raxConfig |-> AppIdLoginRaxConfig, answers |-> <<>>, appliedAt |-> <<>>]

\* A caller sets the configuration (setConfig of either helper).
SetConfigKP(obj) ==
    /\ rq.state = "idle"
    /\ kx.pc = "idle"
    /\ keyProtectObj' = obj
    /\ UNCHANGED <<auxVars, appIDObj, rq, userVars, keyVars>>

\* An operation builds a client and sends a request with it.  Every helper
\* that builds a KeyProtect client and sends with it has passed
\* validateConfig.
SendRequest(client, method) ==
    /\ rq.state = "idle"
    /\ client = "keyprotect" => KPValidateConfig(keyProtectObj) = ""
    /\ rq' = [state |-> "pending", client |-> client, method |-> method,
              raxConfig |-> RaxConfigOf(client, keyProtectObj),
              answers |-> <<>>, appliedAt |-> <<>>]
    /\ UNCHANGED <<auxVars, configVars, userVars, keyVars>>

\* The remote answers the attempt in flight (or the attempt times out); the
\* client resolves, replays, or rejects with this last failure.
Attempt(answer) ==
    /\ rq.state = "pending"
    /\ LET replays == Len(rq.answers) IN
       rq' = [rq EXCEPT
                !.answers = Append(@, answer),
                !.state =
                    IF Is2xx(answer) THEN "resolved"
                    ELSE IF ShouldRetryRequest(rq.raxConfig, rq.method,
                                               answer, replays)
                         THEN "pending"
                         ELSE "rejected"]
    /\ UNCHANGED <<auxVars, configVars, userVars, keyVars>>

\* The awaiting operation takes the result.
TakeResult ==
    /\ rq.state \in {"resolved", "rejected"}
    /\ rq' = RqIdle
    /\ UNCHANGED <<auxVars, configVars, userVars, keyVars>>

InitRetry ==
    /\ keyProtectObj = KPEmpty
    /\ appIDObj = AppIDEmpty
    /\ rq = RqIdle
    /\ accounts = NoAccounts
    /\ ux = UxIdle
    /\ nRuns = 0
    /\ prevRun = UxIdle
    /\ store = <<>>
    /\ kx = KxIdle
    /\ AuxInit

NextRetry ==
    \/ \E obj \in KPConfigs : SetConfigKP(obj)
    \/ \E client \in Clients : \E method \in MethodsOf(client) :
            SendRequest(client, method)
    \/ \E answer \in Answers : Attempt(answer)
    \/ TakeResult

SpecRetry == InitRetry /\ [][NextRetry]_vars

\* The configured number of replays of the client the request went through.
MaxRetriesOf(client) ==
    IF client = "keyprotect" THEN keyProtectObj.retries ELSE retries

AllAnswers5xx ==
    \A i \in 1..Len(rq.answers) : Is5xx(rq.answers[i])

\* C4: a request from any client whose every attempt was answered 5xx is
\* rejected after exactly maxRetries + 1 attempts.
C4_RetryBound ==
    (rq.state = "rejected" /\ AllAnswers5xx)
        => Len(rq.answers) = MaxRetriesOf(rq.client) + 1

\* C5: a 4xx answer is never followed by another attempt: it is the last
\* answer of its request and the request is rejected with it, so a request
\* whose first answer is 4xx makes exactly one attempt.
C5_NoRetryOn4xx ==
    \A i \in 1..Len(rq.answers) :
        Is4xx(rq.answers[i]) => (i = Len(rq.answers) /\ rq.state = "rejected")

C5_Witness ==
    /\ rq.client = "keyprotect"
    /\ rq.method = "DELETE"
    /\ rq.state = "rejected"
    /\ rq.answers = <<404>>

(***************************************************************************)
(* AppID: existUserCheck (app-id-helper.js).                               *)
(***************************************************************************)
MaxRuns == 2

\* What a request resolves to for the awaiting code: "ok" (applied by the
\* remote, resolved), "fail" (rejected, nothing applied), "failApplied"
\* (applied by the remote but the response was lost: rejected).
IsMutation(kind) ==
    kind \in {"login", "create-account", "update-roles", "update-attributes"}

\* Whether the remote directory can answer the request with success.
RemoteAccepts(kind, acc, password) ==
    CASE kind = "login" -> acc.exists /\ acc.password = password
      [] kind = "create-account" -> ~acc.exists
      [] kind = "update-roles" -> acc.active
      [] kind = "update-attributes" -> acc.active
      [] OTHER -> TRUE

\* The account after the remote applied the request.
RemoteApply(kind, acc, password) ==
    CASE kind = "login" -> [acc EXCEPT !.active = TRUE]
      [] kind = "create-account" ->
            [exists |-> TRUE, password |-> password, active |-> FALSE,
             roles |-> FALSE, attrs |-> FALSE]
      [] kind = "update-roles" -> [acc EXCEPT !.roles = TRUE]
      [] kind = "update-attributes" -> [acc EXCEPT !.attrs = TRUE]
      [] OTHER -> acc

ResultAllowed(kind, acc, password, res) ==
    \/ res = "fail"
    \/ /\ RemoteAccepts(kind, acc, password)
       /\ res = "ok" \/ (res = "failApplied" /\ IsMutation(kind))

Results == {"ok", "fail", "failApplied"}

\* A mutation of ProvisionSteps: the attributes are set before the roles.
ProvisionStepsSwapped ==
    <<"token", "list-roles", "create-account", "verify-login", "list-users",
      "update-attributes", "update-roles">>

\* The awaits of the provisioning branch of existUserCheckFunc, in program
\* order: appIdMgmtClient (its token), getAllRolesIds,
\* createUserCloudDirectory, activateNewUserProfile (login, then GET /users),
\* updateUserRoles, updateUserAttributes.
ProvisionSteps ==
    <<"token", "list-roles", "create-account", "verify-login", "list-users",
      "update-roles", "update-attributes">>

\* The request a step sends, as it is written to callLog.
RequestOf(step) == IF step = "verify-login" THEN "login" ELSE step

StepIndex(step) ==
    CHOOSE i \in 1..Len(ProvisionSteps) : ProvisionSteps[i] = step

\* A mutation of NeedsProvisioning: a failed login ends the call.
NeedsProvisioningNever(isUserExists) == FALSE

\* A mutation of NeedsProvisioning: the branch is taken whatever the login did.
NeedsProvisioningAlways(isUserExists) == TRUE

\* if (!isUserExists) of existUserCheckFunc.
NeedsProvisioning(isUserExists) == ~isUserExists

\* existUserCheck: result instanceof Error ? log.error : log.info.
OutcomeOf(result) == IF result = "error" THEN "error" ELSE "info"

\* existUserCheckFunc returns (undefined, or the error it caught) and
\* existUserCheck logs the outcome.
Return(u, result) ==
    [u EXCEPT !.pc = "done", !.result = result, !.outcome = OutcomeOf(result)]

\* A step starts: appIdMgmtClient and loginAppID call validateConfig first and
\* throw when a field is missing; otherwise the step's request is sent.
StepChecksConfig(step) == step \in {"token", "verify-login"}

\* A mutation of OnStepFailure: the error is logged and the workflow goes on
\* with the next step.
OnStepFailureContinue(u, step) ==
    LET i == StepIndex(step) IN
    IF i = Len(ProvisionSteps)
    THEN Return([u EXCEPT !.failedStep = step], "error")
    ELSE [u EXCEPT !.failedStep = step, !.pc = ProvisionSteps[i + 1],
                   !.callLog = Append(@, RequestOf(ProvisionSteps[i + 1]))]

\* A mutation of OnStepFailure: the error is rethrown to the caller.
OnStepFailureRethrow(u, step) ==
    [u EXCEPT !.pc = "done", !.failedStep = step, !.raised = TRUE]

\* The catch blocks of the provisioning branch: return error.
OnStepFailure(u, step) ==
    Return([u EXCEPT !.failedStep = step], "error")

Begin(u, step) ==
    IF StepChecksConfig(step) /\ AppIDValidateConfig(appIDObj) # ""
    THEN OnStepFailure(u, step)
    ELSE [u EXCEPT !.pc = step, !.callLog = Append(@, RequestOf(step))]

\* The step's await resolved: the next step starts, or the function returns.
OnStepSuccess(u, step) ==
    IF StepIndex(step) = Len(ProvisionSteps)
    THEN Return(u, "undefined")
    ELSE Begin(u, ProvisionSteps[StepIndex(step) + 1])

\* setConfig of app-id-helper.js.
SetConfigAppID(obj) ==
    /\ appIDObj' = obj
    /\ UNCHANGED <<auxVars, keyProtectObj, rq, userVars, keyVars>>

\* existUserCheck(username, password) is called: existUserCheckFunc awaits
\* loginAppID, which sends the login request unless validateConfig throws.
ExistUserCheck(username, password) ==
    /\ ux.pc \in {"idle", "done"}
    /\ nRuns < MaxRuns
    /\ nRuns' = nRuns + 1
    /\ prevRun' = ux
    /\ LET sent == AppIDValidateConfig(appIDObj) = "" IN
       ux' = [UxIdle EXCEPT
                !.pc = "login", !.username = username, !.password = password,
                !.loginSent = sent,
                !.callLog = IF sent THEN <<"login">> ELSE <<>>]
    /\ UNCHANGED <<auxVars, configVars, rq, accounts, keyVars>>

\* The initial await loginAppID(...) settles.
LoginReturns(res) ==
    /\ ux.pc = "login"
    /\ LET acc == accounts[ux.username]
           applied == res \in {"ok", "failApplied"}
           u == [ux EXCEPT
                    !.isUserExists = IF res = "ok" THEN "true" ELSE "false",
                    !.applied = IF applied THEN @ \cup {"login"} ELSE @]
       IN /\ IF ux.loginSent
             THEN ResultAllowed("login", acc, ux.password, res)
             ELSE res = "fail"
          /\ accounts' =
                IF applied
                THEN [accounts EXCEPT
                        ![ux.username] = RemoteApply("login", acc, ux.password)]
                ELSE accounts
          /\ ux' = IF NeedsProvisioning(res = "ok")
                   THEN Begin(u, ProvisionSteps[1])
                   ELSE Return(u, "undefined")
    /\ UNCHANGED <<auxVars, configVars, rq, nRuns, prevRun, keyVars>>

\* The await of a provisioning step settles.  found: whether the listing of
\* GET /users holds a user whose email is the username.
StepReturns(step, res, found) ==
    /\ ux.pc = step
    /\ LET kind == RequestOf(step)
           acc == accounts[ux.username]
           applied == res \in {"ok", "failApplied"} /\ IsMutation(kind)
           u == [ux EXCEPT
                    !.applied = IF applied THEN @ \cup {kind} ELSE @,
                    !.newUserId = IF step = "list-users" /\ res = "ok" /\ found
                                  THEN ux.username ELSE @]
       IN /\ ResultAllowed(kind, acc, ux.password, res)
          /\ found => (step = "list-users" /\ res = "ok" /\ acc.active)
          /\ accounts' =
                IF applied
                THEN [accounts EXCEPT
                        ![ux.username] = RemoteApply(kind, acc, ux.password)]
                ELSE accounts
          /\ ux' = IF res = "ok" /\ (step = "list-users" => found)
                   THEN OnStepSuccess(u, step)
                   ELSE OnStepFailure(u, step)
    /\ UNCHANGED <<auxVars, configVars, rq, nRuns, prevRun, keyVars>>

\* cloudIamHelper.getCloudIAMToken(appIDObj.apikey) in appIdMgmtClient.
GetCloudIAMTokenReturns(res) ==
    res \in {"ok", "fail"} /\ StepReturns("token", res, FALSE)

GetAllRolesIdsReturns(res) == StepReturns("list-roles", res, FALSE)

CreateUserCloudDirectoryReturns(res) == StepReturns("create-account", res, FALSE)

ActivateLoginReturns(res) == StepReturns("verify-login", res, FALSE)

ActivateListUsersReturns(res, found) == StepReturns("list-users", res, found)

UpdateUserRolesReturns(res) == StepReturns("update-roles", res, FALSE)

UpdateUserAttributesReturns(res) == StepReturns("update-attributes", res, FALSE)

InitUser ==
    /\ keyProtectObj = KPEmpty
    /\ appIDObj = AppIDEmpty
    /\ rq = RqIdle
    /\ accounts = NoAccounts
    /\ ux = UxIdle
    /\ nRuns = 0
    /\ prevRun = UxIdle
    /\ store = <<>>
    /\ kx = KxIdle
    /\ AuxInit

NextUser ==
    \/ \E obj \in AppIDConfigs : SetConfigAppID(obj)
    \/ \E u \in Usernames : \E p \in Passwords : ExistUserCheck(u, p)
    \/ \E res \in Results : LoginReturns(res)
    \/ \E res \in Results : GetCloudIAMTokenReturns(res)
    \/ \E res \in Results : GetAllRolesIdsReturns(res)
    \/ \E res \in Results : CreateUserCloudDirectoryReturns(res)
    \/ \E res \in Results : ActivateLoginReturns(res)
    \/ \E res \in Results : \E found \in BOOLEAN :
            ActivateListUsersReturns(res, found)
    \/ \E res \in Results : UpdateUserRolesReturns(res)
    \/ \E res \in Results : UpdateUserAttributesReturns(res)

SpecUser == InitUser /\ [][NextUser]_vars


IsPrefix(s, t) == Len(s) <= Len(t) /\ s = SubSeq(t, 1, Len(s))

\* The requests of a call that were sent to AppID (the token request goes to
\* Cloud IAM).
AppIDCalls(log) == SelectSeq(log, LAMBDA e : e # "token")

\* C6: a call whose initial login succeeded has sent the login request and
\* nothing else (no token, list-roles, create-account, list-users,
\* update-roles or update-attributes request) and has changed nothing in the
\* directory beyond what the login itself does.
C6_LoginSuccessNoProvisioning ==
    ux.isUserExists = "true" =>
        /\ ux.callLog = <<"login">>
        /\ ux.applied = {"login"}
        /\ ux.pc = "done"

\* A second call with the same credentials, after a first call that
\* provisioned the account completely, is over after its login.
C6_Witness ==
    /\ nRuns = 2
    /\ prevRun.pc = "done"
    /\ prevRun.failedStep = "none"
    /\ prevRun.applied =
            {"create-account", "login", "update-roles", "update-attributes"}
    /\ prevRun.username = ux.username
    /\ prevRun.password = ux.password
    /\ accounts[ux.username].roles
    /\ accounts[ux.username].attrs
    /\ ux.pc = "done"
    /\ ux.isUserExists = "true"
    /\ ux.callLog = <<"login">>

C7_Order ==
    <<"login", "list-roles", "create-account", "login", "list-users",
      "update-roles", "update-attributes">>

\* C7: when the initial login request failed, the requests sent to AppID are
\* at every moment a prefix of login, list-roles, create-account, login,
\* list-users, update-roles, update-attributes; the request awaited is the
\* last one sent; and a call that ends with no step failed has sent exactly
\* that sequence.
C7_ProvisioningOrder ==
    (ux.loginSent /\ ux.isUserExists = "false") =>
        /\ IsPrefix(AppIDCalls(ux.callLog), C7_Order)
        /\ ux.pc \notin {"idle", "done"} =>
                ux.callLog[Len(ux.callLog)] = RequestOf(ux.pc)
        /\ (ux.pc = "done" /\ ux.failedStep = "none") =>
                AppIDCalls(ux.callLog) = C7_Order

C7_Witness ==
    /\ nRuns = 1
    /\ ux.pc = "done"
    /\ ux.failedStep = "none"
    /\ ux.loginSent
    /\ ux.isUserExists = "false"
    /\ ux.callLog =
            <<"login", "token", "list-roles", "create-account", "login",
              "list-users", "update-roles", "update-attributes">>

\* The place of each provisioning step's request among the requests of a call.
C8_Position(step) ==
    CASE step = "token" -> 2
      [] step = "list-roles" -> 3
      [] step = "create-account" -> 4
      [] step = "verify-login" -> 5
      [] step = "list-users" -> 6
      [] step = "update-roles" -> 7
      [] step = "update-attributes" -> 8

C8_AllRequests ==
    <<"login", "token", "list-roles", "create-account", "login",
      "list-users", "update-roles", "update-attributes">>

\* C8: a call in which a provisioning step failed has sent no request of a
\* later step and no other request (nothing that undoes an earlier step), and
\* what its earlier steps changed in the directory is still there.
C8_AbortNoRollback ==
    (ux.pc = "done" /\ ux.failedStep # "none") =>
        LET log == IF ux.loginSent THEN ux.callLog ELSE <<"login">> \o ux.callLog
            acc == accounts[ux.username]
        IN /\ IsPrefix(log, C8_AllRequests)
           /\ Len(log) <= C8_Position(ux.failedStep)
           /\ "create-account" \in ux.applied => acc.exists
           /\ "login" \in ux.applied => acc.active
           /\ "update-roles" \in ux.applied => acc.roles
           /\ "update-attributes" \in ux.applied => acc.attrs

\* update-roles failed: the account was created, it has no roles, and no
\* update-attributes request was sent.
C8_Witness ==
    /\ ux.pc = "done"
    /\ ux.failedStep = "update-roles"
    /\ "create-account" \in ux.applied
    /\ accounts[ux.username].exists
    /\ ~accounts[ux.username].roles
    /\ Len(ux.callLog) = 7

\* C9: existUserCheck never rejects; a finished call has logged one outcome,
\* an error when a provisioning step failed and a success otherwise.
C9_NeverRaises ==
    /\ ~ux.raised
    /\ ux.pc = "done" =>
            ux.outcome = IF ux.failedStep # "none" THEN "error" ELSE "info"
    /\ ux.pc # "done" => ux.outcome = "none"

C9_Witness ==
    /\ ux.pc = "done"
    /\ ux.failedStep = "token"
    /\ "token" \in {ux.callLog[i] : i \in 1..Len(ux.callLog)}
    /\ ux.outcome = "error"
    /\ ~ux.raised

\* C20: after the initial login of a call failed, whatever made it fail,
\* the call is in the provisioning branch: it is acquiring the token or
\* listing the roles, or one of these two failed, or it has sent the
\* create-account request.
C20_LoginFailureProvisions ==
    ux.isUserExists = "false" =>
        \/ ux.pc \in {"token", "list-roles"}
        \/ ux.failedStep \in {"token", "list-roles"}
        \/ \E n \in 1..Len(ux.callLog) :
                /\ ux.callLog[n] = "create-account"
                /\ n > 2
                /\ ux.callLog[n - 2] = "token"
                /\ ux.callLog[n - 1] = "list-roles"

\* The account exists with another password: the login of the call failed
\* and the call has sent a create-account request for the same username.
C20_Witness ==
    /\ ux.pc = "create-account"
    /\ ux.loginSent
    /\ ux.isUserExists = "false"
    /\ accounts[ux.username].exists
    /\ accounts[ux.username].password # ux.password

\* The call before this one created the account and then failed, at the
\* create-account request itself (applied, response lost) or at a later step.
PartialProvisioning(run) ==
    /\ run.pc = "done"
    /\ run.failedStep # "none"
    /\ "create-account" \in run.applied

\* C22: a call made with the same credentials after a call that created the
\* account and then failed, and all of whose requests succeeded, leaves the
\* account with its roles assigned and its tenant attribute set.
C22_RerunCompletesProvisioning ==
    (/\ nRuns >= 2
     /\ PartialProvisioning(prevRun)
     /\ ux.username = prevRun.username
     /\ ux.password = prevRun.password
     /\ ux.pc = "done"
     /\ ux.loginSent
     /\ ux.isUserExists = "true"
     /\ ux.failedStep = "none")
        => /\ accounts[ux.username].roles
           /\ accounts[ux.username].attrs

\* The first call failed at update-roles; the second call logged in with the
\* account the first one created and returned: no roles, no attribute.
C22_Witness ==
    /\ nRuns = 2
    /\ PartialProvisioning(prevRun)
    /\ prevRun.failedStep = "update-roles"
    /\ ux.username = prevRun.username
    /\ ux.password = prevRun.password
    /\ ux.pc = "done"
    /\ ux.callLog = <<"login">>
    /\ ux.outcome = "info"
    /\ ~accounts[ux.username].roles
    /\ ~accounts[ux.username].attrs

(***************************************************************************)
(* AppID: pingAppID and loginAppID called by the application               *)
(* (app-id-helper.js).  The login request goes through the client of       *)
(* appIdLoginClient, attempt by attempt.                                   *)
(***************************************************************************)
\* pingAppID().  Its third statement is
\*     const timeout = setTimeout(() => {...}, timeout);
\* The second argument names the const being declared (it shadows the
\* module-level timeout in the whole function body), which is read before
\* its initialisation: a ReferenceError is thrown, before the try block, and
\* the call rejects with it.  No client is built and no request is sent.
PingAppID ==
    /\ ax.pc \in {"idle", "done"}
    /\ rq.state = "idle"
    /\ ax' = [AxIdle EXCEPT !.op = "pingAppID", !.pc = "done",
                            !.status = "raised", !.error = "ReferenceError"]
    /\ UNCHANGED <<configVars, rq, userVars, keyVars,
                   calls, cloudantObj, instance, cx>>

\* A mutation of LoginErrorStatus: the status of the response is copied
\* also when there is none.
LoginErrorStatusOfResponse(answer) == answer

\* The catch block of loginAppID: errorObj.status is error.response.status
\* when the error has a response, and 500 otherwise.
LoginErrorStatus(answer) == IF answer # NoResponse THEN answer ELSE 500

\* loginAppID(username, password): validateConfig throws inside the try
\* block (an error with no response), or the login request is sent.
LoginAppID(username, password) ==
    /\ ax.pc \in {"idle", "done"}
    /\ rq.state = "idle"
    /\ IF AppIDValidateConfig(appIDObj) # ""
       THEN /\ ax' = [AxIdle EXCEPT
                        !.op = "loginAppID", !.pc = "done",
                        !.status = "raised", !.error = "Error",
                        !.errorStatus = LoginErrorStatus(NoResponse)]
            /\ rq' = rq
       ELSE /\ ax' = [AxIdle EXCEPT !.op = "loginAppID", !.pc = "login",
                                    !.status = "running", !.sent = TRUE]
            /\ rq' = [state |-> "pending", client |-> "appid-login",
                      method |-> "POST", raxConfig |-> AppIdLoginRaxConfig,
                      answers |-> <<>>, appliedAt |-> <<>>]
    /\ UNCHANGED <<configVars, userVars, keyVars,
                   calls, cloudantObj, instance, cx>>

\* await loginClient.post(...) settles: response.data is returned, or the
\* catch block throws errorObj.
LoginAppIDReturns ==
    /\ ax.pc = "login"
    /\ rq.state \in {"resolved", "rejected"}
    /\ LET last == rq.answers[Len(rq.answers)] IN
       ax' = IF rq.state = "resolved"
             THEN [ax EXCEPT !.pc = "done", !.status = "returned",
                             !.result = "data", !.answers = rq.answers]
             ELSE [ax EXCEPT !.pc = "done", !.status = "raised",
                             !.error = "Error",
                             !.errorStatus = LoginErrorStatus(last),
                             !.answers = rq.answers]
    /\ rq' = RqIdle
    /\ UNCHANGED <<configVars, userVars, keyVars,
                   calls, cloudantObj, instance, cx>>

InitAppID ==
    /\ keyProtectObj = KPEmpty
    /\ appIDObj = AppIDEmpty
    /\ rq = RqIdle
    /\ accounts = NoAccounts
    /\ ux = UxIdle
    /\ nRuns = 0
    /\ prevRun = UxIdle
    /\ store = <<>>
    /\ kx = KxIdle
    /\ AuxInit

NextAppID ==
    \/ \E obj \in AppIDConfigs : SetConfigAppID(obj)
    \/ PingAppID
    \/ \E u \in Usernames : \E p \in Passwords : LoginAppID(u, p)
    \/ \E answer \in Answers : Attempt(answer)
    \/ LoginAppIDReturns

SpecAppID == InitAppID /\ [][NextAppID]_vars

\* C13: pingAppID never raises to its caller: it resolves to true or to
\* false.
C13_PingNeverRaises ==
    ax.op = "pingAppID" =>
        /\ ax.status # "raised"
        /\ ax.pc = "done" => ax.result \in {"true", "false"}

\* C16: a loginAppID that ended returned the response data exactly when
\* the last attempt of its login request was answered 2xx; otherwise it
\* raised an error whose status is the status of the last answer when there
\* was one, and 500 when there was none (no response to the last attempt, or
\* no request at all).
C16_LoginErrorStatus ==
    (ax.op = "loginAppID" /\ ax.pc = "done") =>
        LET n == Len(ax.answers) IN
        IF n > 0 /\ Is2xx(ax.answers[n])
        THEN ax.status = "returned" /\ ax.result = "data"
        ELSE /\ ax.status = "raised"
             /\ ax.result = "none"
             /\ ax.errorStatus =
                    IF n > 0 /\ ax.answers[n] # NoResponse
                    THEN ax.answers[n] ELSE 500

\* The login request and its replay both timed out: the error has status
\* 500.
C16_Witness ==
    /\ ax.op = "loginAppID"
    /\ ax.status = "raised"
    /\ ax.sent
    /\ ax.answers = <<NoResponse, NoResponse>>
    /\ ax.errorStatus = 500


(***************************************************************************)
(* Cloudant: CloudantHelperLib (cloudant-helper.js).                       *)
(***************************************************************************)
MaxServices == 2

\* initCloudant throws: no connection section, or no usable credentials.
InitCloudantThrows(obj) ==
    obj.connection = NoConnection \/ obj.connection.auth = "none"

\* The address initCloudant binds the service to (setServiceUrl).
ServiceUrl(connection) ==
    IF connection.auth = "legacy" /\ connection.proxyUrl # ""
    THEN connection.proxyUrl
    ELSE connection.url

\* getInstance: cloudantObj = Object.assign(cloudantDataObj), on every call.
GetInstanceConfig(cloudantDataObj) == cloudantDataObj

\* CloudantHelperLib.getInstance(cloudantDataObj).
GetInstance(cloudantDataObj) ==
    /\ cloudantObj' = GetInstanceConfig(cloudantDataObj)
    /\ instance' = [instance EXCEPT !.exists = TRUE]
    /\ cx' = IF instance.exists /\ instance.cloudant = NoClient
             THEN [CxIdle EXCEPT !.op = "getInstance", !.status = "raised",
                                 !.errorStatus = 500]
             ELSE [CxIdle EXCEPT !.op = "getInstance", !.status = "returned",
                                 !.result = "instance"]
    /\ UNCHANGED <<configVars, rq, userVars, keyVars, calls, ax>>

\* instance.setupCloudant() up to its await: nothing to do when the client
\* is there; otherwise initCloudant() throws, or returns a new service that
\* the call assigns when it resumes.
SetupCloudant ==
    /\ instance.exists
    /\ IF instance.cloudant # NoClient
       THEN /\ cx' = [CxIdle EXCEPT !.op = "setupCloudant",
                                    !.status = "returned"]
            /\ instance' = instance
       ELSE IF InitCloudantThrows(cloudantObj)
       THEN /\ cx' = [CxIdle EXCEPT !.op = "setupCloudant",
                                    !.status = "raised"]
            /\ instance' = instance
       ELSE /\ instance.services < MaxServices
            /\ cx' = [CxIdle EXCEPT !.op = "setupCloudant",
                                    !.status = "running"]
            /\ instance' =
                    [instance EXCEPT
                        !.services = @ + 1,
                        !.pending =
                            Append(@, [serial |-> instance.services + 1,
                                       url |-> ServiceUrl(cloudantObj.connection),
                                       builtFrom |-> cloudantObj])]
    /\ UNCHANGED <<configVars, rq, userVars, keyVars, calls, ax, cloudantObj>>

\* The oldest suspended setupCloudant resumes: this.cloudant = <service>.
SetupCloudantResumes ==
    /\ instance.pending # <<>>
    /\ instance' = [instance EXCEPT !.cloudant = Head(instance.pending),
                                    !.pending = Tail(instance.pending)]
    /\ cx' = [CxIdle EXCEPT !.op = "setupCloudant", !.status = "returned"]
    /\ UNCHANGED <<configVars, rq, userVars, keyVars, calls, ax, cloudantObj>>

\* instance.findByQuery(db, selector): partitionKey is read from
\* cloudantObj.dbPartitionKey when the request is built.  With no client
\* the member access on this.cloudant throws.
FindByQuery ==
    /\ instance.exists
    /\ cx' = IF instance.cloudant = NoClient
             THEN [CxIdle EXCEPT !.op = "findByQuery", !.status = "raised"]
             ELSE [CxIdle EXCEPT
                    !.op = "findByQuery", !.status = "returned",
                    !.result = "docs",
                    !.read.dbPartitionKey = cloudantObj.dbPartitionKey,
                    !.built.dbPartitionKey =
                        instance.cloudant.builtFrom.dbPartitionKey]
    /\ UNCHANGED <<configVars, rq, userVars, keyVars, calls, ax,
                   cloudantObj, instance>>

\* instance.checkConnection(): cloudantObj.connection.timeout is read for
\* the message of timeoutError (outside the try block: with no connection
\* section the call rejects) and for the race; pingCloudant answers true
\* or false, and false when there is no client.
CheckConnection(reply) ==
    /\ instance.exists
    /\ cx' = IF cloudantObj.connection = NoConnection
             THEN [CxIdle EXCEPT !.op = "checkConnection",
                                 !.status = "raised"]
             ELSE IF instance.cloudant = NoClient
             THEN [CxIdle EXCEPT !.op = "checkConnection",
                                 !.status = "returned", !.result = "false"]
             ELSE [CxIdle EXCEPT
                    !.op = "checkConnection", !.status = "returned",
                    !.result = IF reply THEN "true" ELSE "false",
                    !.read.timeout = cloudantObj.connection.timeout,
                    !.built.timeout =
                        instance.cloudant.builtFrom.connection.timeout]
    /\ UNCHANGED <<configVars, rq, userVars, keyVars, calls, ax,
                   cloudantObj, instance>>

InitCloudant ==
    /\ keyProtectObj = KPEmpty
    /\ appIDObj = AppIDEmpty
    /\ rq = RqIdle
    /\ accounts = NoAccounts
    /\ ux = UxIdle
    /\ nRuns = 0
    /\ prevRun = UxIdle
    /\ store = <<>>
    /\ kx = KxIdle
    /\ AuxInit

NextCloudant ==
    \/ \E cloudantDataObj \in CloudantConfigs : GetInstance(cloudantDataObj)
    \/ SetupCloudant
    \/ SetupCloudantResumes
    \/ FindByQuery
    \/ \E reply \in BOOLEAN : CheckConnection(reply)

SpecCloudant == InitCloudant /\ [][NextCloudant]_vars

\* C14: a method call that goes through the service client reads from the
\* configuration the values the configuration had when that client was
\* constructed (partition key, timeout), whatever getInstance calls were
\* made since.
C14_ConfigImmutable ==
    (cx.op \in {"findByQuery", "checkConnection"} /\ cx.status = "returned")
        => cx.read = cx.built

\* C25, getInstance: a call returns only when there was no instance yet (the
\* first call) or the instance has its client; otherwise it throws an error
\* object with status 500.
C25_GetInstanceOutcome ==
    cx'.op = "getInstance" =>
        IF ~instance.exists \/ instance.cloudant # NoClient
        THEN cx'.status = "returned" /\ cx'.result = "instance"
        ELSE cx'.status = "raised" /\ cx'.errorStatus = 500

\* C25, the instance: once made it is the one every later call gets.
C25_SameInstance == instance.exists => instance'.exists

\* C25, the client: once assigned, no step assigns this.cloudant again and no
\* further service is constructed.
C25_ClientKept ==
    instance.cloudant # NoClient =>
        /\ instance'.cloudant = instance.cloudant
        /\ instance'.services = instance.services

\* C25: in any sequence of getInstance and setupCloudant calls, getInstance
\* returns only if it is the first call or the client has been initialised by
\* a setupCloudant that succeeded, and throws an error object with status 500
\* otherwise; every getInstance that returns yields the same instance; and a
\* client once initialised is never constructed again or replaced by a later
\* setupCloudant.
C25_SingletonClient ==
    [][C25_GetInstanceOutcome /\ C25_SameInstance /\ C25_ClientKept]_vars

\* Two setupCloudant calls were made before either resumed: each constructed
\* a service, and the second assignment has replaced the client the first
\* one had set.
C25_Witness ==
    /\ instance.exists
    /\ instance.services = 2
    /\ instance.pending = <<>>
    /\ instance.cloudant.serial = 2
    /\ cx.op = "setupCloudant"
    /\ cx.status = "returned"

(***************************************************************************)
(* KeyProtect: the exported operations of keyprotect-helper.js.            *)
(***************************************************************************)
Req(kind, id) == [kind |-> kind, id |-> id]

\* A mutation of IsBefore: the comparison is turned around (isAfter).
IsAfter(a, b) == a > b

\* A mutation of IsBefore: an equal date passes too (isSameOrBefore).
IsSameOrBefore(a, b) == a <= b

\* moment(a).isBefore(moment(b)).
IsBefore(a, b) == a < b

\* The loop of getNewestKeyIDByName from index i, run to its next await (the
\* deleteKey of the key in newestKeyID, reported in deleteID) or to its end
\* (deleteID = NoID, i = Len(keyList) + 1).
RECURSIVE ScanLoop(_, _, _, _, _)
ScanLoop(keyList, searchName, i, newestKeyID, newestCreationDate) ==
    IF i > Len(keyList)
    THEN [i |-> i, newestKeyID |-> newestKeyID,
          newestCreationDate |-> newestCreationDate, deleteID |-> NoID]
    ELSE IF /\ keyList[i].name = searchName
            /\ IsBefore(newestCreationDate, keyList[i].creationDate)
         THEN IF newestKeyID # NoID
              THEN [i |-> i, newestKeyID |-> newestKeyID,
                    newestCreationDate |-> keyList[i].creationDate,
                    deleteID |-> newestKeyID]
              ELSE ScanLoop(keyList, searchName, i + 1, keyList[i].id,
                            keyList[i].creationDate)
         ELSE ScanLoop(keyList, searchName, i + 1, newestKeyID,
                       newestCreationDate)

\* getKeysByName: response.filter(key => key.name === keyName).
FilterByName(keys, keyName) ==
    SelectSeq(keys, LAMBDA key : key.name = keyName)

RemoveKey(s, id) == SelectSeq(s, LAMBDA key : key.id # id)

\* The operation returns a value to its caller.
KReturn(k, kind, keys, id) ==
    [k EXCEPT !.pc = "done", !.status = "returned", !.result = kind,
              !.resultKeys = keys, !.resultID = id]

\* The operation rejects: an error reaches its caller.
KRaise(k) == [k EXCEPT !.pc = "done", !.status = "raised"]

Failed(k, what) == [k EXCEPT !.failures = @ \cup {what}]

\* A mutation of Caught: every catch block logs a warning and returns ''.
CaughtReturnsEmpty(k) == KReturn(k, "", <<>>, NoID)

\* An error reaches the try/catch of the exported operation: getKeyByID and
\* getNewestKeyByName log a warning and return '', deleteKey and createKey
\* log and throw a new Error; getAllKeys has no try/catch of its own.
Caught(k) ==
    IF k.op \in {"getKeyByID", "getNewestKeyByName"}
    THEN KReturn(k, "", <<>>, NoID)
    ELSE KRaise(k)

\* getAllKeysHelper sends client.get().
SendList(k) ==
    [k EXCEPT !.pc = "list", !.callLog = Append(@, Req("list", NoID))]

\* deleteKey(id) is called: validateConfig, then the token is awaited.
CallDeleteKey(k, id, caller) ==
    IF KPValidateConfig(keyProtectObj) # ""
    THEN Caught(Failed(k, "config"))
    ELSE [k EXCEPT !.pc = "delete-token", !.deleteID = id,
                   !.deleteCaller = caller,
                   !.callLog = Append(@, Req("token", NoID))]

\* createKey after its clean-up: client.post('', body) is sent.
SendCreate(k) ==
    [k EXCEPT !.pc = "create", !.callLog = Append(@, Req("create", NoID))]

\* getNewestKeyIDByName returned newestKeyID to getNewestKeyByName or to
\* createKey.
AfterScan(k, newestKeyID) ==
    LET k1 == [k EXCEPT !.scanReturned = TRUE] IN
    IF k.op = "getNewestKeyByName"
    THEN IF newestKeyID = NoID
         THEN KReturn(k1, "", <<>>, NoID)
         ELSE [k1 EXCEPT !.pc = "get", !.keyID = newestKeyID,
                         !.callLog = Append(@, Req("get", newestKeyID))]
    ELSE IF newestKeyID # NoID
         THEN CallDeleteKey(k1, newestKeyID, "createKey")
         ELSE SendCreate(k1)

\* A mutation of Scan: the record under examination is deleted instead of
\* the previous newest one.
ScanDeletesCurrent(k, i, newestKeyID, newestCreationDate) ==
    LET r == ScanLoop(k.keyList, k.keyName, i, newestKeyID, newestCreationDate)
        k1 == [k EXCEPT !.i = r.i, !.newestKeyID = r.newestKeyID,
                        !.newestCreationDate = r.newestCreationDate]
    IN IF r.deleteID # NoID
       THEN CallDeleteKey(k1, k.keyList[r.i].id, "scan")
       ELSE AfterScan(k1, r.newestKeyID)

\* The loop of getNewestKeyIDByName runs on from index i.
Scan(k, i, newestKeyID, newestCreationDate) ==
    LET r == ScanLoop(k.keyList, k.keyName, i, newestKeyID, newestCreationDate)
        k1 == [k EXCEPT !.i = r.i, !.newestKeyID = r.newestKeyID,
                        !.newestCreationDate = r.newestCreationDate]
    IN IF r.deleteID # NoID
       THEN CallDeleteKey(k1, r.deleteID, "scan")
       ELSE AfterScan(k1, r.newestKeyID)

\* getAllKeys resolved to `keys` (the listing, or [] after a failure).
AfterList(k, keys) ==
    IF k.op = "getAllKeys"
    THEN KReturn(k, "list", keys, NoID)
    ELSE Scan([k EXCEPT !.keyList = FilterByName(keys, k.keyName)],
              1, NoID, 0)

\* getAllKeysHelper(client): client.get() is sent unless validateConfig
\* throws; the helper catches that and resolves to [].
CallGetAllKeysHelper(k) ==
    IF KPValidateConfig(keyProtectObj) # ""
    THEN AfterList(Failed(k, "config"), <<>>)
    ELSE SendList(k)

\* getKeysByName: validateConfig inside its own try/catch, then getAllKeys.
CallGetKeysByName(k) ==
    IF KPValidateConfig(keyProtectObj) # ""
    THEN AfterList(Failed(k, "config"), <<>>)
    ELSE CallGetAllKeysHelper(k)

SendToken(k) ==
    [k EXCEPT !.pc = "token", !.callLog = Append(@, Req("token", NoID))]

\* An operation with validateConfig at the head of its try block.
StartChecked(k) ==
    IF KPValidateConfig(keyProtectObj) # ""
    THEN Caught(Failed(k, "config"))
    ELSE SendToken(k)


KeyResults == {"ok", "fail", "failApplied"}

\* getAllKeys(client): with no client the token is awaited first, outside
\* any try block and before any validateConfig.
GetAllKeys(hasClient) ==
    /\ kx.pc = "idle"
    /\ LET k == [KxStart("getAllKeys") EXCEPT !.hasClient = hasClient] IN
       kx' = IF hasClient THEN CallGetAllKeysHelper(k) ELSE SendToken(k)
    /\ UNCHANGED <<auxVars, configVars, rq, userVars, store>>

GetKeyByID(keyID) ==
    /\ kx.pc = "idle"
    /\ kx' = StartChecked([KxStart("getKeyByID") EXCEPT !.keyID = keyID])
    /\ UNCHANGED <<auxVars, configVars, rq, userVars, store>>

GetNewestKeyByName(keyName) ==
    /\ kx.pc = "idle"
    /\ kx' = StartChecked([KxStart("getNewestKeyByName") EXCEPT
                                !.keyName = keyName])
    /\ UNCHANGED <<auxVars, configVars, rq, userVars, store>>

DeleteKey(keyID) ==
    /\ kx.pc = "idle"
    /\ kx' = CallDeleteKey([KxStart("deleteKey") EXCEPT !.keyID = keyID],
                           keyID, "top")
    /\ UNCHANGED <<auxVars, configVars, rq, userVars, store>>

\* createKey(keyName, keyPayload): validateConfig, then the two argument
\* checks, then the token.
CreateKey(keyName, keyPayload) ==
    /\ kx.pc = "idle"
    /\ LET k == [KxStart("createKey") EXCEPT !.keyName = keyName] IN
       kx' = IF KPValidateConfig(keyProtectObj) = ""
                /\ (keyName = "" \/ keyPayload = "")
             THEN Caught(Failed(k, "argument"))
             ELSE StartChecked(k)
    /\ UNCHANGED <<auxVars, configVars, rq, userVars, store>>

\* await cloudIamHelper.getCloudIAMToken(...) of the exported operation
\* settles.
TokenReturns(res) ==
    /\ kx.pc = "token"
    /\ res \in {"ok", "fail"}
    /\ kx' = IF res = "fail" THEN Caught(Failed(kx, "token"))
             ELSE CASE kx.op = "getAllKeys" -> CallGetAllKeysHelper(kx)
                    [] kx.op = "getKeyByID" ->
                        [kx EXCEPT !.pc = "get",
                                   !.callLog = Append(@, Req("get", kx.keyID))]
                    [] OTHER -> CallGetKeysByName(kx)
    /\ UNCHANGED <<auxVars, configVars, rq, userVars, store>>

\* await client.get() of getAllKeysHelper settles: the listing, or [] from
\* its catch block.
ListReturns(res) ==
    /\ kx.pc = "list"
    /\ res \in {"ok", "fail"}
    /\ kx' = IF res = "ok" THEN AfterList(kx, store)
             ELSE AfterList(Failed(kx, "list"), <<>>)
    /\ UNCHANGED <<auxVars, configVars, rq, userVars, store>>

\* await getCloudIAMToken of deleteKey settles.
DeleteTokenReturns(res) ==
    /\ kx.pc = "delete-token"
    /\ res \in {"ok", "fail"}
    /\ kx' = IF res = "fail" THEN Caught(Failed(kx, "delete-token"))
             ELSE [kx EXCEPT !.pc = "delete",
                             !.callLog = Append(@, Req("delete", kx.deleteID))]
    /\ UNCHANGED <<auxVars, configVars, rq, userVars, store>>

\* await client.delete(keyID) settles; deleteKey returns to the code that
\* called it, or throws.
DeleteReturns(res) ==
    /\ kx.pc = "delete"
    /\ res # "fail" => kx.deleteID \in IDsOf(store)
    /\ store' = IF res = "fail" THEN store ELSE RemoveKey(store, kx.deleteID)
    /\ kx' = IF res # "ok" THEN Caught(Failed(kx, "delete"))
             ELSE CASE kx.deleteCaller = "top" ->
                        KReturn(kx, "undefined", <<>>, NoID)
                    [] kx.deleteCaller = "scan" ->
                        Scan(kx, kx.i + 1, kx.keyList[kx.i].id,
                             kx.newestCreationDate)
                    [] kx.deleteCaller = "createKey" -> SendCreate(kx)
    /\ UNCHANGED <<auxVars, configVars, rq, userVars>>

\* await client.get(keyID) of getKeyByID or getNewestKeyByName settles.
GetReturns(res) ==
    /\ kx.pc = "get"
    /\ res \in {"ok", "fail"}
    /\ res = "ok" => kx.keyID \in IDsOf(store)
    /\ kx' = IF res = "ok" THEN KReturn(kx, "payload", <<>>, kx.keyID)
             ELSE Caught(Failed(kx, "get"))
    /\ UNCHANGED <<auxVars, configVars, rq, userVars, store>>

\* await client.post('', body) of createKey settles.
CreateReturns(res) ==
    /\ kx.pc = "create"
    /\ store' = IF res = "fail" THEN store
                ELSE Append(store, [id |-> NewKeyID, name |-> kx.keyName,
                                    creationDate |-> NewKeyDate])
    /\ kx' = IF res = "ok" THEN KReturn(kx, "id", <<>>, NewKeyID)
             ELSE Caught(Failed(kx, "create"))
    /\ UNCHANGED <<auxVars, configVars, rq, userVars>>

InitKey ==
    /\ keyProtectObj = KPEmpty
    /\ appIDObj = AppIDEmpty
    /\ rq = RqIdle
    /\ accounts = NoAccounts
    /\ ux = UxIdle
    /\ nRuns = 0
    /\ prevRun = UxIdle
    /\ store \in Stores
    /\ kx = KxIdle
    /\ AuxInit

NextKey ==
    \/ \E obj \in KPConfigs : SetConfigKP(obj)
    \/ \E hasClient \in BOOLEAN : GetAllKeys(hasClient)
    \/ \E keyID \in 1..MaxKeys : GetKeyByID(keyID)
    \/ \E keyName \in SearchNames : GetNewestKeyByName(keyName)
    \/ \E keyID \in 1..MaxKeys : DeleteKey(keyID)
    \/ \E keyName \in SearchNames \cup {""} : \E keyPayload \in {"", "payload"} :
            CreateKey(keyName, keyPayload)
    \/ \E res \in KeyResults : TokenReturns(res)
    \/ \E res \in KeyResults : ListReturns(res)
    \/ \E res \in KeyResults : DeleteTokenReturns(res)
    \/ \E res \in KeyResults : DeleteReturns(res)
    \/ \E res \in KeyResults : GetReturns(res)
    \/ \E res \in KeyResults : CreateReturns(res)

SpecKey == InitKey /\ [][NextKey]_vars


(***************************************************************************)
(* The mutations that the retry policy replays: the DELETE of deleteKey     *)
(* and the POST of createUserCloudDirectory, attempt by attempt, together   *)
(* with the remote they act on.  KeyProtect answers 2xx to a DELETE only    *)
(* when it deleted the record, AppID answers 2xx to the POST only when it   *)
(* created the account; an attempt the remote applied may also time out.    *)
(* One operation is followed at a time: a key operation on any store, or    *)
(* the user workflow.                                                       *)
(***************************************************************************)
\* The request as the client sends its first attempt.
FirstAttempt(client, method) ==
    [state |-> "pending", client |-> client, method |-> method,
     raxConfig |-> RaxConfigOf(client, keyProtectObj),
     answers |-> <<>>, appliedAt |-> <<>>]

\* The request after the attempt in flight was answered: resolved, replayed
\* or rejected, as in Attempt.
Answered(r, answer, applies) ==
    LET replays == Len(r.answers) IN
    [r EXCEPT
        !.answers = Append(@, answer),
        !.appliedAt = IF applies THEN Append(@, replays + 1) ELSE @,
        !.state =
            IF Is2xx(answer) THEN "resolved"
            ELSE IF ShouldRetryRequest(r.raxConfig, r.method, answer, replays)
                 THEN "pending"
                 ELSE "rejected"]

\* What the remote does with one attempt.  accepts: the mutation can be
\* applied (the record is there, the username is free).  The remote applies
\* it and answers 2xx, or applies it and the response is lost; or it does not
\* apply it and the attempt gets no 2xx.
AttemptAllowed(accepts, answer, applies) ==
    IF applies
    THEN accepts /\ (Is2xx(answer) \/ answer = NoResponse)
    ELSE ~Is2xx(answer)

\* await client.delete(keyID) resolved: deleteKey returns to its caller.
DeleteResolved(k) ==
    CASE k.deleteCaller = "top" -> KReturn(k, "undefined", <<>>, NoID)
      [] k.deleteCaller = "scan" ->
            Scan(k, k.i + 1, k.keyList[k.i].id, k.newestCreationDate)
      [] k.deleteCaller = "createKey" -> SendCreate(k)

\* One attempt of client.delete(keyID) is answered; when the request settles,
\* deleteKey returns or throws.
DeleteAttempt(answer, applies) ==
    /\ kx.pc = "delete"
    /\ AttemptAllowed(kx.deleteID \in IDsOf(store), answer, applies)
    /\ LET r == IF rq.state = "pending" THEN rq
                ELSE FirstAttempt("keyprotect", "DELETE")
           r1 == Answered(r, answer, applies)
       IN /\ rq' = r1
          /\ kx' = CASE r1.state = "pending" -> kx
                     [] r1.state = "rejected" -> Caught(Failed(kx, "delete"))
                     [] r1.state = "resolved" -> DeleteResolved(kx)
    /\ store' = IF applies THEN RemoveKey(store, kx.deleteID) ELSE store
    /\ UNCHANGED <<auxVars, configVars, userVars>>

\* One attempt of client.post('/cloud_directory/Users', data) is answered;
\* when the request settles, createUserCloudDirectory returns or throws.
CreateAccountAttempt(answer, applies) ==
    /\ ux.pc = "create-account"
    /\ LET acc == accounts[ux.username]
           r == IF rq.state = "pending" THEN rq
                ELSE FirstAttempt("appid-mgmt", "POST")
           r1 == Answered(r, answer, applies)
           u == [ux EXCEPT
                    !.applied = IF applies THEN @ \cup {"create-account"} ELSE @]
       IN /\ AttemptAllowed(RemoteAccepts("create-account", acc, ux.password),
                            answer, applies)
          /\ rq' = r1
          /\ accounts' =
                IF applies
                THEN [accounts EXCEPT
                        ![ux.username] =
                            RemoteApply("create-account", acc, ux.password)]
                ELSE accounts
          /\ ux' = CASE r1.state = "pending" -> u
                     [] r1.state = "rejected" -> OnStepFailure(u, "create-account")
                     [] r1.state = "resolved" -> OnStepSuccess(u, "create-account")
    /\ UNCHANGED <<auxVars, configVars, nRuns, prevRun, keyVars>>

ReplayDeleteKey(keyID) == ux.pc = "idle" /\ DeleteKey(keyID)

ReplayCreateKey(keyName, keyPayload) ==
    ux.pc = "idle" /\ CreateKey(keyName, keyPayload)

ReplayExistUserCheck(username, password) ==
    kx.pc = "idle" /\ store = <<>> /\ ExistUserCheck(username, password)

InitReplay ==
    /\ keyProtectObj \in {KPFull(r) : r \in 1..MaxRetries}
    /\ appIDObj = AppIDFull
    /\ rq = RqIdle
    /\ accounts = NoAccounts
    /\ ux = UxIdle
    /\ nRuns = 0
    /\ prevRun = UxIdle
    /\ store \in Stores
    /\ kx = KxIdle
    /\ AuxInit

NextReplay ==
    \/ \E keyID \in 1..MaxKeys : ReplayDeleteKey(keyID)
    \/ \E keyName \in SearchNames : ReplayCreateKey(keyName, "payload")
    \/ \E res \in KeyResults : TokenReturns(res)
    \/ \E res \in KeyResults : ListReturns(res)
    \/ \E res \in KeyResults : DeleteTokenReturns(res)
    \/ \E answer \in Answers : \E applies \in BOOLEAN :
            DeleteAttempt(answer, applies)
    \/ \E res \in KeyResults : CreateReturns(res)
    \/ \E u \in Usernames : \E p \in Passwords : ReplayExistUserCheck(u, p)
    \/ \E res \in Results : LoginReturns(res)
    \/ \E res \in Results : GetCloudIAMTokenReturns(res)
    \/ \E res \in Results : GetAllRolesIdsReturns(res)
    \/ \E answer \in Answers : \E applies \in BOOLEAN :
            CreateAccountAttempt(answer, applies)
    \/ \E res \in Results : ActivateLoginReturns(res)
    \/ \E res \in Results : \E found \in BOOLEAN :
            ActivateListUsersReturns(res, found)
    \/ \E res \in Results : UpdateUserRolesReturns(res)
    \/ \E res \in Results : UpdateUserAttributesReturns(res)

SpecReplay == InitReplay /\ [][NextReplay]_vars

\* The request that settled last had its first attempt applied by the remote
\* with the response lost, and every replay of it was answered by the remote
\* itself (no further timeout, no 5xx).
FirstAttemptLost ==
    /\ rq.state \in {"resolved", "rejected"}
    /\ Len(rq.answers) >= 2
    /\ rq.answers[1] = NoResponse
    /\ Len(rq.appliedAt) >= 1
    /\ rq.appliedAt[1] = 1
    /\ \A i \in 2..Len(rq.answers) :
            rq.answers[i] # NoResponse /\ ~Is5xx(rq.answers[i])

\* C21: when the first attempt of a delete-key or create-account request was
\* applied by the remote and its response was lost, the replay applies the
\* mutation no second time, the request resolves, and the operation that
\* awaits it goes on as after a success: deleteKey does not throw, the
\* provisioning does not stop at create-account.
C21_ReplayedMutationSucceeds ==
    FirstAttemptLost =>
        /\ rq.appliedAt = <<1>>
        /\ rq.state = "resolved"
        /\ rq.client = "keyprotect" => "delete" \notin kx.failures
        /\ rq.client = "appid-mgmt" => ux.failedStep # "create-account"

\* createKey found one record of the name and deleted it; the record is gone
\* (the first DELETE was applied), the replay was answered 404, and createKey
\* threw without sending its create request.
C21_Witness ==
    /\ FirstAttemptLost
    /\ kx.op = "createKey"
    /\ kx.status = "raised"
    /\ kx.failures = {"delete"}
    /\ rq.answers = <<NoResponse, 404>>
    /\ rq.appliedAt = <<1>>
    /\ Len(store) = Len(kx.store0) - 1

(***************************************************************************)
(* KeyProtect: createKey calls that overlap.  Each call has its own locals *)
(* (calls[c]) and runs the code of createKey from await to await; the      *)
(* calls share the remote store and the configuration set at startup.      *)
(***************************************************************************)
MaxRaceKeys == 2

RaceStores == UNION {StoresOfLen(n) : n \in 0..MaxRaceKeys}

\* The id and the creation date the remote gives the record a call creates.
RaceKeyID(c) == MaxKeys + c

RaceKeyDate(s) ==
    IF \E n \in 1..Len(s) : s[n].creationDate >= NewKeyDate
    THEN NewKeyDate + 1
    ELSE NewKeyDate

\* A mutation of RaceCreated: the remote keeps one record per name and the
\* new record replaces the others.
RaceCreatedReplaces(s, c, keyName) ==
    Append(SelectSeq(s, LAMBDA key : key.name # keyName),
           [id |-> RaceKeyID(c), name |-> keyName,
            creationDate |-> RaceKeyDate(s)])

\* The store after the remote applied the create request of call c.
RaceCreated(s, c, keyName) ==
    Append(s, [id |-> RaceKeyID(c), name |-> keyName,
               creationDate |-> RaceKeyDate(s)])

\* createKey(keyName, keyPayload) is called (valid arguments).
RaceCreateKey(c, keyName) ==
    /\ calls[c].pc = "idle"
    /\ calls' = [calls EXCEPT
                    ![c] = StartChecked([KxStart("createKey") EXCEPT
                                            !.keyName = keyName])]
    /\ UNCHANGED <<configVars, rq, userVars, keyVars,
                   ax, cloudantObj, instance, cx>>

\* await getCloudIAMToken of call c settles.
RaceTokenReturns(c, res) ==
    /\ calls[c].pc = "token"
    /\ res \in {"ok", "fail"}
    /\ calls' = [calls EXCEPT
                    ![c] = IF res = "fail" THEN Caught(Failed(@, "token"))
                           ELSE CallGetKeysByName(@)]
    /\ UNCHANGED <<configVars, rq, userVars, keyVars,
                   ax, cloudantObj, instance, cx>>

\* await client.get() of call c settles.
RaceListReturns(c, res) ==
    /\ calls[c].pc = "list"
    /\ res \in {"ok", "fail"}
    /\ calls' = [calls EXCEPT
                    ![c] = IF res = "ok" THEN AfterList(@, store)
                           ELSE AfterList(Failed(@, "list"), <<>>)]
    /\ UNCHANGED <<configVars, rq, userVars, keyVars,
                   ax, cloudantObj, instance, cx>>

\* await getCloudIAMToken of a deleteKey of call c settles.
RaceDeleteTokenReturns(c, res) ==
    /\ calls[c].pc = "delete-token"
    /\ res \in {"ok", "fail"}
    /\ calls' = [calls EXCEPT
                    ![c] = IF res = "fail"
                           THEN Caught(Failed(@, "delete-token"))
                           ELSE [@ EXCEPT
                                   !.pc = "delete",
                                   !.callLog =
                                       Append(@, Req("delete",
                                                     calls[c].deleteID))]]
    /\ UNCHANGED <<configVars, rq, userVars, keyVars,
                   ax, cloudantObj, instance, cx>>

\* await client.delete(keyID) of call c settles; the remote rejects the
\* delete of a record that is no longer there.
RaceDeleteReturns(c, res) ==
    /\ calls[c].pc = "delete"
    /\ res # "fail" => calls[c].deleteID \in IDsOf(store)
    /\ store' = IF res = "fail" THEN store
                ELSE RemoveKey(store, calls[c].deleteID)
    /\ LET k == calls[c] IN
       calls' = [calls EXCEPT
                    ![c] = IF res # "ok" THEN Caught(Failed(k, "delete"))
                           ELSE IF k.deleteCaller = "scan"
                           THEN Scan(k, k.i + 1, k.keyList[k.i].id,
                                     k.newestCreationDate)
                           ELSE SendCreate(k)]
    /\ UNCHANGED <<configVars, rq, userVars, kx,
                   ax, cloudantObj, instance, cx>>

\* await client.post('', body) of call c settles.
RaceCreateReturns(c, res) ==
    /\ calls[c].pc = "create"
    /\ store' = IF res = "fail" THEN store
                ELSE RaceCreated(store, c, calls[c].keyName)
    /\ calls' = [calls EXCEPT
                    ![c] = IF res = "ok"
                           THEN KReturn(@, "id", <<>>, RaceKeyID(c))
                           ELSE Caught(Failed(@, "create"))]
    /\ UNCHANGED <<configVars, rq, userVars, kx,
                   ax, cloudantObj, instance, cx>>

\* The configuration was set at startup; some records are in the store.
InitRace ==
    /\ keyProtectObj = KPFull(1)
    /\ appIDObj = AppIDEmpty
    /\ rq = RqIdle
    /\ accounts = NoAccounts
    /\ ux = UxIdle
    /\ nRuns = 0
    /\ prevRun = UxIdle
    /\ store \in RaceStores
    /\ kx = KxIdle
    /\ AuxInit

NextRace ==
    \/ \E c \in Callers : \E keyName \in SearchNames : RaceCreateKey(c, keyName)
    \/ \E c \in Callers : \E res \in KeyResults : RaceTokenReturns(c, res)
    \/ \E c \in Callers : \E res \in KeyResults : RaceListReturns(c, res)
    \/ \E c \in Callers : \E res \in KeyResults :
            RaceDeleteTokenReturns(c, res)
    \/ \E c \in Callers : \E res \in KeyResults : RaceDeleteReturns(c, res)
    \/ \E c \in Callers : \E res \in KeyResults : RaceCreateReturns(c, res)

SpecRace == InitRace /\ [][NextRace]_vars

\* The records of `s` named `name`, in listing order.
Named(s, name) == FilterByName(s, name)

\* The records named `name` have pairwise distinct creation dates, all later
\* than the epoch.
DistinctDates(s, name) ==
    LET n == Named(s, name) IN
    /\ \A i \in 1..Len(n) : n[i].creationDate > 0
    /\ \A i, j \in 1..Len(n) : i # j => n[i].creationDate # n[j].creationDate

\* C1: after a createKey(N, payload) in which nothing failed, called on
\* records named N whose creation dates are pairwise distinct (and later
\* than the epoch) in any listing order, exactly one record named N is in
\* the store, the one createKey created.
C1_CreateKeyLeavesOnlyNewKey ==
    (/\ kx.op = "createKey"
     /\ kx.status = "returned"
     /\ kx.failures = {}
     /\ DistinctDates(kx.store0, kx.keyName))
        => /\ Len(Named(store, kx.keyName)) = 1
           /\ Named(store, kx.keyName)[1].id = kx.resultID
           /\ kx.resultID \notin IDsOf(kx.store0)

\* C2: after a getNewestKeyByName(N) in which nothing failed, whatever the
\* listing order of the records named N (creation dates pairwise distinct
\* and later than the epoch), at most one record named N is in the store,
\* the one with the greatest creation date.
C2_NewestKeyOnlySurvivor ==
    (/\ kx.op = "getNewestKeyByName"
     /\ kx.status = "returned"
     /\ kx.failures = {}
     /\ DistinctDates(kx.store0, kx.keyName))
        => LET before == Named(kx.store0, kx.keyName)
               after == Named(store, kx.keyName)
           IN /\ Len(after) <= 1
              /\ Len(after) = 1 =>
                    \A i \in 1..Len(before) :
                        before[i].creationDate <= after[1].creationDate

\* C3: when the records of the searched name are two records with the same
\* creation date (later than the epoch), the scan of a getNewestKeyByName
\* in which nothing failed keeps the one listed later (its key is what the
\* operation reads) and deletes the one listed earlier.
C3_TieKeepsLaterListed ==
    LET before == Named(kx.store0, kx.keyName) IN
    (/\ kx.op = "getNewestKeyByName"
     /\ kx.status = "returned"
     /\ kx.failures = {}
     /\ Len(before) = 2
     /\ before[1].creationDate = before[2].creationDate
     /\ before[1].creationDate > 0)
        => /\ kx.resultID = before[2].id
           /\ before[1].id \notin IDsOf(store)

ReadOps == {"getAllKeys", "getKeyByID", "getNewestKeyByName"}

\* C10: getAllKeys (with or without a client), getKeyByID and
\* getNewestKeyByName never raise: when the configuration check, the token
\* acquisition, the list-keys or the get-key request failed they return the
\* empty list (getAllKeys) or the empty string (the other two).
C10_ReadsNeverRaise ==
    kx.op \in ReadOps =>
        /\ kx.status # "raised"
        /\ (kx.pc = "done" /\ kx.failures \cap {"config", "token", "list", "get"} # {})
                => IF kx.op = "getAllKeys"
                   THEN kx.result = "list" /\ kx.resultKeys = <<>>
                   ELSE kx.result = ""

\* C11: an exported operation (deleteKey, createKey, getNewestKeyByName) in
\* which a delete-key request failed ends by raising an error to its caller,
\* never by returning a value.
C11_DeleteFailureRaises ==
    (kx.pc = "done" /\ "delete" \in kx.failures) => kx.status = "raised"

\* deleteKey and createKey do raise when their delete request failed.
C11_Witness ==
    /\ kx.op = "createKey"
    /\ kx.pc = "done"
    /\ "delete" \in kx.failures
    /\ kx.status = "raised"

\* C12: an operation called while a required configuration field is missing
\* acquires no token and sends no request.  (The configuration does not
\* change while an operation of this specification runs.)
C12_ConfigCheckedFirst ==
    (kx.pc # "idle" /\ KPValidateConfig(keyProtectObj) # "")
        => kx.callLog = <<>>

\* getKeyByID called with a missing field returns '' with nothing sent.
C12_Witness ==
    /\ kx.op = "getKeyByID"
    /\ kx.pc = "done"
    /\ kx.failures = {"config"}
    /\ kx.callLog = <<>>

\* The requests of kind `kind` in a call log.
RequestsOf(log, kind) == SelectSeq(log, LAMBDA r : r.kind = kind)

\* C17: when getNewestKeyIDByName has returned, on listed records of the
\* searched name whose creation dates are pairwise distinct and later than
\* the epoch, in any listing order, its value is the id of the listed record
\* with the greatest creation date, and the empty string when no listed
\* record has the name.
C17_ScanReturnsNewest ==
    (kx.scanReturned /\ DistinctDates(kx.keyList, kx.keyName)) =>
        IF kx.keyList = <<>>
        THEN kx.newestKeyID = NoID
        ELSE \E i \in 1..Len(kx.keyList) :
                /\ kx.keyList[i].id = kx.newestKeyID
                /\ \A j \in 1..Len(kx.keyList) :
                        kx.keyList[j].creationDate <= kx.keyList[i].creationDate

\* Three records of the name listed with the newest in the middle: the scan
\* returns the middle one.
C17_Witness ==
    /\ kx.scanReturned
    /\ Len(kx.keyList) = 3
    /\ DistinctDates(kx.keyList, kx.keyName)
    /\ kx.keyList[2].creationDate > kx.keyList[1].creationDate
    /\ kx.keyList[2].creationDate > kx.keyList[3].creationDate
    /\ kx.newestKeyID = kx.keyList[2].id

\* C18: in createKey a create request is sent only when every delete
\* createKey attempted has succeeded; when the deletion of an existing
\* record failed (its token or its request) no create request is sent and
\* createKey raises.
C18_CreateOnlyAfterDeletes ==
    kx.op = "createKey" =>
        /\ RequestsOf(kx.callLog, "create") # <<>> =>
                /\ kx.failures \cap {"delete", "delete-token"} = {}
                /\ \A n \in 1..Len(kx.callLog) :
                        kx.callLog[n].kind = "delete" =>
                            kx.callLog[n].id \notin IDsOf(store)
        /\ kx.failures \cap {"delete", "delete-token"} # {} =>
                /\ kx.status = "raised"
                /\ RequestsOf(kx.callLog, "create") = <<>>

\* The delete of the surviving record, the one createKey itself asks for
\* after the scan, failed: createKey raised and sent no create request.
C18_Witness ==
    /\ kx.op = "createKey"
    /\ kx.status = "raised"
    /\ kx.deleteCaller = "createKey"
    /\ "delete" \in kx.failures
    /\ RequestsOf(kx.callLog, "create") = <<>>
    /\ kx.deleteID \in IDsOf(store)

\* C19: no delete request is issued before the scan has examined every
\* listed record of the name, so an operation in which a delete of the scan
\* failed has deleted no record.
C19_NoDeleteBeforeScanEnds ==
    /\ (RequestsOf(kx.callLog, "delete") # <<>> /\ kx.op # "deleteKey")
            => kx.scanReturned
    /\ (kx.deleteCaller = "scan" /\ "delete" \in kx.failures)
            => IDsOf(kx.store0) \subseteq IDsOf(store)

\* The ids the delete requests of a call log name.
DeleteTargets(log) ==
    {log[n].id : n \in {m \in 1..Len(log) : log[m].kind = "delete"}}

\* C19 as the code has it: the scan deletes while it runs.  A delete of the
\* scan is issued when the record under examination, at index i, is later
\* than every record listed before it: every record before index i has
\* been examined, the target is the newest of them, and it is older than
\* record i.  So when a delete of the scan failed (its token or its
\* request), every record the operation asked to delete is older than a
\* listed record it did not ask to delete.
C19_DeleteFollowsNewestSoFar ==
    /\ (kx.deleteCaller = "scan" /\ kx.pc \in {"delete-token", "delete"}) =>
            /\ kx.i \in 2..Len(kx.keyList)
            /\ ~kx.scanReturned
            /\ \E j \in 1..(kx.i - 1) :
                    /\ kx.keyList[j].id = kx.deleteID
                    /\ \A m \in 1..(kx.i - 1) :
                            kx.keyList[m].creationDate
                                <= kx.keyList[j].creationDate
                    /\ kx.keyList[j].creationDate
                            < kx.keyList[kx.i].creationDate
    /\ (/\ kx.deleteCaller = "scan"
        /\ kx.failures \cap {"delete", "delete-token"} # {}) =>
            \A m \in 1..Len(kx.keyList) :
                kx.keyList[m].id \in DeleteTargets(kx.callLog) =>
                    \E n \in 1..Len(kx.keyList) :
                        /\ kx.keyList[n].id \notin DeleteTargets(kx.callLog)
                        /\ kx.keyList[m].creationDate
                                < kx.keyList[n].creationDate

\* The second delete of a scan over three records failed after the first
\* one had succeeded: the oldest record stays deleted.
C19_Witness ==
    /\ kx.deleteCaller = "scan"
    /\ kx.pc = "done"
    /\ kx.failures = {"delete"}
    /\ kx.i = 3
    /\ kx.keyList[1].id \notin IDsOf(store)
    /\ kx.keyList[2].id \in IDsOf(store)
    /\ kx.keyList[3].id \in IDsOf(store)

\* C23: a createKey whose list request failed sends no create request, and
\* after a createKey that returned a key id no record of the name that was
\* there before the call is left next to the new one.
C23_CreateOnlyAfterObservedList ==
    kx.op = "createKey" =>
        /\ "list" \in kx.failures => RequestsOf(kx.callLog, "create") = <<>>
        /\ kx.status = "returned" =>
                \A i \in 1..Len(store) :
                    store[i].name = kx.keyName => store[i].id = kx.resultID

\* The list request of createKey failed, the create request was sent all
\* the same, and createKey returned the new id with the record it never saw
\* still in the store.
C23_Witness ==
    /\ kx.op = "createKey"
    /\ kx.status = "returned"
    /\ kx.failures = {"list"}
    /\ Len(RequestsOf(kx.callLog, "create")) = 1
    /\ RequestsOf(kx.callLog, "delete") = <<>>
    /\ Len(Named(kx.store0, kx.keyName)) = 1
    /\ Len(Named(store, kx.keyName)) = 2

\* The records of a store that have the name and the greatest creation
\* date among the records of the name (several when the greatest date is
\* shared).
NewestOf(s, name) ==
    {m \in 1..Len(s) :
        /\ s[m].name = name
        /\ \A n \in 1..Len(s) :
                s[n].name = name => s[n].creationDate <= s[m].creationDate}

\* C24: during getNewestKeyByName(N), in any listing order and with equal
\* creation dates too, no record with the greatest creation date among the
\* records named N is the target of a delete request, and all of them stay
\* in the store; a record is removed only by a delete request of the call,
\* and the target of a delete request is a record named N that is older
\* than a record named N the scan has examined by then.
C24_NewestNeverDeleted ==
    kx.op = "getNewestKeyByName" =>
        /\ \A m \in NewestOf(kx.store0, kx.keyName) :
                /\ kx.store0[m].id \notin DeleteTargets(kx.callLog)
                /\ kx.store0[m].id \in IDsOf(store)
        /\ \A m \in 1..Len(kx.store0) :
                kx.store0[m].id \notin IDsOf(store) =>
                    kx.store0[m].id \in DeleteTargets(kx.callLog)
        /\ \A m \in 1..Len(kx.store0) :
                kx.store0[m].id \in DeleteTargets(kx.callLog) =>
                    /\ kx.store0[m].name = kx.keyName
                    /\ \E j \in 1..Len(kx.keyList) :
                            /\ j <= kx.i
                            /\ kx.keyList[j].name = kx.keyName
                            /\ kx.keyList[j].creationDate
                                    > kx.store0[m].creationDate

\* Three records of the name, the two listed last sharing the greatest
\* date: the oldest was deleted when the second was examined, the third
\* was skipped, both newest records are in the store and the payload of the
\* second was read.
C24_Witness ==
    /\ kx.op = "getNewestKeyByName"
    /\ kx.status = "returned"
    /\ kx.result = "payload"
    /\ Len(kx.keyList) = 3
    /\ kx.keyList[1].creationDate < kx.keyList[2].creationDate
    /\ kx.keyList[2].creationDate = kx.keyList[3].creationDate
    /\ DeleteTargets(kx.callLog) = {kx.keyList[1].id}
    /\ IDsOf(store) = {kx.keyList[2].id, kx.keyList[3].id}
    /\ kx.resultID = kx.keyList[2].id

\* The other of the two calls.
Other(c) == CHOOSE d \in Callers : d # c

\* C15: two overlapping createKey calls for one name are not safe against
\* each other.  Whenever both calls have returned a key id and neither had
\* the record of the other in its listing, neither has deleted the record
\* of the other: both new records are in the store, two records of one
\* name.  (C15_Witness is such an interleaving of their list, delete and
\* create requests.)
C15_ConcurrentCreateKeyUnsafe ==
    (\A c \in Callers :
        /\ calls[c].status = "returned"
        /\ calls[c].result = "id"
        /\ calls[c].keyName = calls[Other(c)].keyName
        /\ RaceKeyID(Other(c)) \notin IDsOf(calls[c].keyList))
    => /\ \A c \in Callers : calls[c].resultID \in IDsOf(store)
       /\ calls[1].resultID # calls[2].resultID
       /\ Len(Named(store, calls[1].keyName)) >= 2

\* Both calls were made on a store holding one record of the name; one call
\* listed it and deleted it, the other listed after that delete and before
\* the create of the first: nothing failed, both calls returned a key id,
\* and the store holds the two new records.
C15_Witness ==
    /\ \A c \in Callers :
            /\ calls[c].status = "returned"
            /\ calls[c].result = "id"
            /\ calls[c].failures = {}
            /\ Len(calls[c].store0) = 1
            /\ calls[c].store0[1].name = calls[c].keyName
    /\ calls[1].store0 = calls[2].store0
    /\ RequestsOf(calls[1].callLog, "delete") # <<>>
    /\ RequestsOf(calls[2].callLog, "delete") = <<>>
    /\ Len(store) = 2
    /\ IDsOf(store) = {RaceKeyID(c) : c \in Callers}
    /\ Len(Named(store, calls[1].keyName)) = 2

=============================================================================
